---- MODULE Spec2Model ----
(***************************************************************************)
(* Model of connector-mango/src/mango.rs: the three PostgreSQL NUMERIC     *)
(* encoders (SqlNumericI80F48, SqlNumericI128, SqlNumericU64), the exact   *)
(* integer logarithm int_log they use, and the filter at the head of the   *)
(* three insert_account_write handlers.                                    *)
(*                                                                         *)
(* Machine integers of 64 and 128 bits do not fit TLC's integers, so an    *)
(* unsigned machine integer is modelled as the little-endian sequence of   *)
(* its 16-bit words with no leading zero word (zero is the empty           *)
(* sequence).  Width is kept explicitly: Fits(a, w) says that a fits in w  *)
(* words, Wrap(a, w) is a modulo 2^(16 w).                                 *)
(***************************************************************************)
EXTENDS Integers, Sequences, FiniteSets, TLC

VARIABLES out, before, call, write

vars == <<out, before, call, write>>

(***************************************************************************)
(* Unsigned multi-word arithmetic.                                         *)
(***************************************************************************)
Max(x, y) == IF x >= y THEN x ELSE y
Min(x, y) == IF x <= y THEN x ELSE y

Word(a, i) == IF i >= 1 /\ i <= Len(a) THEN a[i] ELSE 0

RECURSIVE Trim(_)
Trim(a) ==
  IF a = <<>> THEN a
  ELSE IF a[Len(a)] = 0 THEN Trim(SubSeq(a, 1, Len(a) - 1)) ELSE a

\* a small natural (below 2^31) as a word sequence
RECURSIVE FromNat(_)
FromNat(n) == IF n = 0 THEN <<>> ELSE <<n % 65536>> \o FromNat(n \div 65536)

\* a word sequence of at most one word, or a value known to be small, as a natural
ToNat(a) == Word(a, 1) + 65536 * Word(a, 2)

RECURSIVE CmpFrom(_, _, _)
CmpFrom(a, b, i) ==
  IF i = 0 THEN 0
  ELSE IF Word(a, i) < Word(b, i) THEN -1
  ELSE IF Word(a, i) > Word(b, i) THEN 1
  ELSE CmpFrom(a, b, i - 1)

Cmp(a, b) == CmpFrom(a, b, Max(Len(a), Len(b)))
Lt(a, b) == Cmp(a, b) < 0
Geq(a, b) == Cmp(a, b) >= 0

RECURSIVE AddFrom(_, _, _, _)
AddFrom(a, b, i, carry) ==
  IF i > Max(Len(a), Len(b))
  THEN (IF carry = 0 THEN <<>> ELSE <<carry>>)
  ELSE LET s == Word(a, i) + Word(b, i) + carry
       IN <<s % 65536>> \o AddFrom(a, b, i + 1, s \div 65536)

Add(a, b) == AddFrom(a, b, 1, 0)

\* a - b for a >= b
RECURSIVE SubFrom(_, _, _, _)
SubFrom(a, b, i, borrow) ==
  IF i > Len(a) THEN <<>>
  ELSE LET d == Word(a, i) - Word(b, i) - borrow
       IN IF d < 0 THEN <<d + 65536>> \o SubFrom(a, b, i + 1, 1)
                   ELSE <<d>> \o SubFrom(a, b, i + 1, 0)

Sub(a, b) == Trim(SubFrom(a, b, 1, 0))

\* a * m for a small multiplier m (m <= 32768)
RECURSIVE MulFrom(_, _, _, _)
MulFrom(a, m, i, carry) ==
  IF i > Len(a) THEN FromNat(carry)
  ELSE LET s == a[i] * m + carry
       IN <<s % 65536>> \o MulFrom(a, m, i + 1, s \div 65536)

MulSmall(a, m) == Trim(MulFrom(a, m, 1, 0))

\* a * w for a single word w (w < 65536), by the two bytes of w
MulWord(a, w) ==
  Add(MulSmall(MulSmall(a, w \div 256), 256), MulSmall(a, w % 256))

\* a << (16 k)
ShlWords(a, k) == IF a = <<>> THEN a ELSE [i \in 1..k |-> 0] \o a

\* a * b, one word of b at a time
RECURSIVE MulAcc(_, _, _)
MulAcc(a, b, i) ==
  IF i > Len(b) THEN <<>>
  ELSE Add(ShlWords(MulWord(a, b[i]), i - 1), MulAcc(a, b, i + 1))

Mul(a, b) == Trim(MulAcc(a, b, 1))

\* Long division by a small divisor d (d <= 32768), from the most significant
\* word i down, with the running remainder rem and the quotient words so far
RECURSIVE DivSmallFrom(_, _, _, _, _)
DivSmallFrom(a, d, i, rem, quot) ==
  IF i = 0 THEN <<quot, rem>>
  ELSE LET cur == rem * 65536 + a[i]
       IN IF cur < d THEN DivSmallFrom(a, d, i - 1, cur, <<0>> \o quot)
          ELSE DivSmallFrom(a, d, i - 1, cur % d, <<cur \div d>> \o quot)

DivSmall(a, d) == Trim(DivSmallFrom(a, d, Len(a), 0, <<>>)[1])
ModSmall(a, d) == DivSmallFrom(a, d, Len(a), 0, <<>>)[2]

\* One quotient word of the long division a / b (Knuth, TAOCP 4.3.1, D3):
\* cur < b * 2^16 and the top word of b is at least 2^15; the estimate from the
\* top two words of cur is the quotient word or at most 2 above it.
QuotEstimate(cur, b) ==
  LET n == Len(b)
      half == Word(cur, n + 1) * 32768 + (Word(cur, n) \div 2)
      low == 2 * (half % b[n]) + (Word(cur, n) % 2)
  IN Min(65535, 2 * (half \div b[n]) + (low \div b[n]))

RECURSIVE QuotCorrect(_, _, _)
QuotCorrect(cur, b, q) ==
  IF q > 0 /\ Lt(cur, MulWord(b, q)) THEN QuotCorrect(cur, b, q - 1) ELSE q

\* long division of a by normalised b from word i of a down, with the running
\* remainder rem < b and the quotient words so far
RECURSIVE DivFrom(_, _, _, _, _)
DivFrom(a, b, i, rem, quot) ==
  IF i = 0 THEN quot
  ELSE LET cur == Trim(<<a[i]>> \o rem)
       IN IF Lt(cur, b) THEN DivFrom(a, b, i - 1, cur, <<0>> \o quot)
          ELSE LET q == QuotCorrect(cur, b, QuotEstimate(cur, b))
                   r == Sub(cur, MulWord(b, q))
               IN IF q = 0 THEN quot      \* not reached: cur >= b
                  ELSE DivFrom(a, b, i - 1, r, <<q>> \o quot)

\* floor(a / b) for b # 0: both are scaled by norm so that the top word of the
\* divisor is at least 2^15, which leaves the quotient unchanged
Div(a, b) ==
  LET norm == 65536 \div (b[Len(b)] + 1)
      an == MulSmall(a, norm)
  IN Trim(DivFrom(an, MulSmall(b, norm), Len(an), <<>>, <<>>))

\* acc * m^k as a word sequence
RECURSIVE PowAcc(_, _, _)
PowAcc(m, k, acc) ==
  IF k = 0 \/ acc = <<>> THEN acc ELSE PowAcc(m, k - 1, MulSmall(acc, m))

PowSmall(m, k) == PowAcc(m, k, <<1>>)

Pow10(k) == MulSmall(PowSmall(10000, k \div 4), CASE k % 4 = 0 -> 1
                                                  [] k % 4 = 1 -> 10
                                                  [] k % 4 = 2 -> 100
                                                  [] k % 4 = 3 -> 1000)

\* 2^(16 w), the first value that does not fit in w words
Pow2Words(w) == [i \in 1..(w + 1) |-> IF i = w + 1 THEN 1 ELSE 0]

Fits(a, w) == Len(a) <= w
Wrap(a, w) == Trim(SubSeq(a, 1, Min(Len(a), w)))

\* a >> (16 k) and a mod 2^(16 k)
ShrWords(a, k) == IF Len(a) <= k THEN <<>> ELSE SubSeq(a, k + 1, Len(a))
LowWords(a, k) == Wrap(a, k)

\* the machine integer types of the source, as widths in 16-bit words
U32Words == 2
U64Words == 4
U128Words == 8

AsU32(a) == Wrap(a, U32Words)
AsU64(a) == Wrap(a, U64Words)

U64Max == Sub(Pow2Words(U64Words), <<1>>)
U128Max == Sub(Pow2Words(U128Words), <<1>>)
\* the bit pattern of i128::MIN (and of I80F48::MIN): 2^127
I128MinBits == <<0, 0, 0, 0, 0, 0, 0, 32768>>
I128MaxBits == Sub(I128MinBits, <<1>>)

(***************************************************************************)
(* mod int_log (mango.rs lines 81-134).                                    *)
(***************************************************************************)
\* less_than_8 with `val > 10_000` for `val >= 10_000`
less_than_8_strict(val0) ==
  LET big == ~Geq(Pow10(4), val0)
      val == IF big THEN Div(val0, Pow10(4)) ELSE val0
      log == IF big THEN 4 ELSE 0
  IN log + (IF Geq(val, Pow10(3)) THEN 3
            ELSE IF Geq(val, Pow10(2)) THEN 2
            ELSE IF Geq(val, Pow10(1)) THEN 1
            ELSE 0)

\* const fn less_than_8(mut val: u32) -> u32
less_than_8(val0) ==
  LET big == Geq(val0, Pow10(4))
      val == IF big THEN Div(val0, Pow10(4)) ELSE val0
      log == IF big THEN 4 ELSE 0
  IN log + (IF Geq(val, Pow10(3)) THEN 3
            ELSE IF Geq(val, Pow10(2)) THEN 2
            ELSE IF Geq(val, Pow10(1)) THEN 1
            ELSE 0)

\* const fn less_than_16(mut val: u64) -> u32
less_than_16(val0) ==
  LET big == Geq(val0, Pow10(8))
      val == IF big THEN Div(val0, Pow10(8)) ELSE val0
      log == IF big THEN 8 ELSE 0
  IN log + less_than_8(AsU32(val))

\* pub const fn u64(mut val: u64) -> u32
int_log_u64(val0) ==
  LET big == Geq(val0, Pow10(16))
      val == IF big THEN Div(val0, Pow10(16)) ELSE val0
      log == IF big THEN 16 ELSE 0
  IN log + less_than_16(val)

\* u128 without the 10^32 split: the value is divided by 10^16 once and handed
\* to less_than_16 as a u64
int_log_u128_no_split(val0) ==
  LET big == Geq(val0, Pow10(16))
      val == IF big THEN Div(val0, Pow10(16)) ELSE val0
      log == IF big THEN 16 ELSE 0
  IN log + less_than_16(AsU64(val))

\* pub const fn u128(mut val: u128) -> u32
int_log_u128(val0) ==
  IF Geq(val0, Pow10(32))
  THEN 32 + less_than_8(AsU32(Div(val0, Pow10(32))))
  ELSE LET big == Geq(val0, Pow10(16))
           val == IF big THEN Div(val0, Pow10(16)) ELSE val0
           log == IF big THEN 16 ELSE 0
       IN log + less_than_16(AsU64(val))

\* The reference of the contract: the number of decimal digits of n, minus one,
\* by stripping decimal digits from the right, four at a time while more than
\* four are left.
RECURSIVE DecimalDigits(_)
DecimalDigits(n) ==
  IF Lt(n, <<10000>>)
  THEN LET m == ToNat(n)
       IN IF m < 10 THEN 1 ELSE IF m < 100 THEN 2 ELSE IF m < 1000 THEN 3 ELSE 4
  ELSE 4 + DecimalDigits(DivSmall(n, 10000))

FloorLog10(n) == DecimalDigits(n) - 1

(***************************************************************************)
(* BytesMut::put_u16 / put_i16: two bytes, big-endian.                     *)
(***************************************************************************)
put_u16(x) == <<(x % 65536) \div 256, x % 256>>
\* an i16 is written as its two's complement bit pattern
put_i16(x) == put_u16(IF x < 0 THEN x + 65536 ELSE x)

\* the weight by a division that truncates toward zero, (decimals / 4) as i16
FirstGroupWeightTruncating(decimals) ==
  IF decimals >= 0 THEN decimals \div 4 ELSE -((-decimals) \div 4)

\* An f64 whose value is mant * 2^exp, for integers mant and exp with
\* |mant| < 2^53 and exp within the exponent range: such a value is
\* represented exactly.
\* `decimals as f64`: a 32-bit integer is exact in f64
as_f64(n) == [mant |-> n, exp |-> 0]
\* x / 4.0f64: a division by a power of two only lowers the exponent, and is
\* exact
f64_div_4(x) == [mant |-> x.mant, exp |-> x.exp - 2]
\* the floor cut toward zero, f64::trunc
f64_trunc(x) ==
  IF x.exp >= 0 THEN x.mant * 2^x.exp
  ELSE IF x.mant >= 0 THEN x.mant \div 2^(-x.exp)
  ELSE -((-x.mant) \div 2^(-x.exp))
\* f64::floor: the largest integer not above the value; a negative value with
\* a fractional part goes down, away from zero
f64_floor(x) ==
  IF x.exp >= 0 THEN x.mant * 2^x.exp
  ELSE IF x.mant >= 0 THEN x.mant \div 2^(-x.exp)
  ELSE LET whole == (-x.mant) \div 2^(-x.exp)
       IN IF whole * 2^(-x.exp) = -x.mant THEN -whole ELSE -whole - 1
\* `as i16` of a float saturates
as_i16(v) == IF v > 32767 THEN 32767 ELSE IF v < -32768 THEN -32768 ELSE v

\* ((decimals as f64) / 4.0f64).floor() as i16
FirstGroupWeight(decimals) == as_i16(f64_floor(f64_div_4(as_f64(decimals))))

\* The emission loop of the encoders (lines 55-61, 62-68, 168-173, 212-217), for
\* weight = hi down to lo:
\*     let decimal_shift = 10000.pow((weight + off) as u32);
\*     let v = (part / decimal_shift) & 0xFFFF;
\*     out.put_i16(v as i16);
\*     part -= v * decimal_shift;
\* in an unsigned integer type of `words` 16-bit words.  checks is the build's
\* overflow-checks setting: an overflow panics when it is on and wraps when it
\* is off.  The result is the bytes written and whether the loop completed.
RECURSIVE EmitGroups(_, _, _, _, _, _, _)
EmitGroups(part, weight, lo, off, words, checks, acc) ==
  IF weight < lo THEN [ok |-> TRUE, bytes |-> acc]
  ELSE
    LET exp == weight + off
        pow == IF exp < 0 THEN <<>> ELSE PowSmall(10000, exp)
        \* a negative exponent cast to u32 is at least 2^31: pow overflows, and
        \* wraps to 0 where overflow is not checked
        powOverflow == exp < 0 \/ ~Fits(pow, words)
        decimal_shift == Wrap(pow, words)
    IN IF (powOverflow /\ checks) \/ decimal_shift = <<>>
       THEN [ok |-> FALSE, bytes |-> acc]    \* overflow, or division by zero
       ELSE
         LET v == LowWords(Div(part, decimal_shift), 1)
             prod == Mul(v, decimal_shift)
             subOverflow == ~Fits(prod, words) \/ Lt(part, prod)
             \* v as i16, written big-endian
             written == acc \o put_u16(ToNat(v))
         IN IF subOverflow
            THEN IF checks THEN [ok |-> FALSE, bytes |-> written]
                 ELSE EmitGroups(
                        Wrap(Sub(Add(part, Pow2Words(words)), Wrap(prod, words)),
                             words),
                        weight - 1, lo, off, words, checks, written)
            ELSE EmitGroups(Sub(part, prod), weight - 1, lo, off, words, checks,
                            written)

\* the header: num_groups, weight, sign, dscale
Header(num_groups, first_group_weight, sign, dscale) ==
  put_u16(num_groups) \o put_i16(first_group_weight) \o put_u16(sign)
    \o put_u16(dscale)

SignNegative == 16384

Result(status, bytes, logs) == [status |-> status, bytes |-> bytes, logs |-> logs]

\* the sign taken from bit 63, as of the value cast to i64
IsNegative64(bits) == Word(bits, U64Words) >= 32768

IsNegative(bits) == Geq(bits, I128MinBits)
\* two's complement negation in 128 bits
Negate128(bits) == Wrap(Sub(Pow2Words(U128Words), bits), U128Words)

(***************************************************************************)
(* impl ToSql for SqlNumericU64 (lines 188-220).                           *)
(***************************************************************************)
\* the encoder without the special case of zero: the logarithm is always called
SqlNumericU64_always_log(v, checks) ==
  LET decimals == int_log_u64(v)
      first_group_weight == FirstGroupWeight(decimals)
      num_groups == first_group_weight + 1
      head == Header(num_groups, first_group_weight, 0, 0)
      loop == EmitGroups(v, first_group_weight, 0, 0, U64Words, checks, head)
  IN Result(IF loop.ok THEN "Ok" ELSE "Panic", loop.bytes, 1)

SqlNumericU64_to_sql(v, checks) ==
  LET decimals == IF v # <<>> THEN int_log_u64(v) ELSE 0
      first_group_weight == FirstGroupWeight(decimals)
      num_groups == first_group_weight + 1
      head == Header(num_groups, first_group_weight, 0, 0)
      loop == EmitGroups(v, first_group_weight, 0, 0, U64Words, checks, head)
  IN Result(IF loop.ok THEN "Ok" ELSE "Panic", loop.bytes,
            IF v # <<>> THEN 1 ELSE 0)

(***************************************************************************)
(* impl ToSql for SqlNumericI128 (lines 139-176).  self.0 is given as its  *)
(* 128-bit two's complement bit pattern.                                   *)
(***************************************************************************)
SqlNumericI128_to_sql(bits, checks) ==
  IF bits = I128MinBits /\ checks
  THEN Result("Panic", <<>>, 0)      \* self.0.abs() overflows
  ELSE
    LET abs_val == IF IsNegative(bits) THEN Negate128(bits) ELSE bits
        decimals == IF bits # <<>> THEN int_log_u128(abs_val) ELSE 0
        first_group_weight == FirstGroupWeight(decimals)
        num_groups == first_group_weight + 1
        head == Header(num_groups, first_group_weight,
                       IF IsNegative(bits) THEN SignNegative ELSE 0, 0)
        loop == EmitGroups(abs_val, first_group_weight, 0, 0, U128Words,
                           checks, head)
    IN Result(IF loop.ok THEN "Ok" ELSE "Panic", loop.bytes,
              IF bits # <<>> THEN 1 ELSE 0)

(***************************************************************************)
(* impl ToSql for SqlNumericI80F48 (lines 16-78).  self.0 is given as the  *)
(* 128-bit two's complement bit pattern of the fixed-point number, whose   *)
(* value is bits / 2^48.                                                   *)
(***************************************************************************)
\* the 48 fractional bits of I80F48, in 16-bit words
FracWords == 3
LastGroupWeight == -4
DScaleI80F48 == 16

\* -k for the least k >= 1 with frac * 10^k >= 1, scaled = frac bits * 10^k
RECURSIVE FracLog10(_, _)
FracLog10(scaled, k) ==
  IF Geq(scaled, Pow2Words(FracWords)) THEN -k
  ELSE FracLog10(MulSmall(scaled, 10), k + 1)

\* I80F48::int_log10 of the fixed crate, for a value > 0: floor(log10(value)),
\* which is negative for a value below 1
FixedIntLog10(abs_val) ==
  IF ShrWords(abs_val, FracWords) # <<>>
  THEN FloorLog10(ShrWords(abs_val, FracWords))
  ELSE FracLog10(MulSmall(abs_val, 10), 1)

\* the fraction scaled by 1e15 for 1e16
FracPart1e15(abs_val) ==
  LET frac == LowWords(abs_val, FracWords)
      scale == ShlWords(Pow10(15), FracWords)
      product == ShrWords(Mul(frac, scale), FracWords)
  IN ShrWords(product, FracWords)

\* the fractional loop started at weight -1 whatever the first group weight
FracLoopStartMinusOne(first_group_weight) == -1

\* cmp::min(first_group_weight, -1), the weight the fractional loop starts at
FracLoopStart(first_group_weight) == Min(first_group_weight, -1)

\* (abs_val.frac() * I80F48::from_num(1e16)).to_num::<u64>(): the product of two
\* I80F48 is the wide product of their bits shifted right by 48; to_num drops
\* the 48 fractional bits
FracPart(abs_val) ==
  LET frac == LowWords(abs_val, FracWords)
      scale == ShlWords(Pow10(16), FracWords)
      product == ShrWords(Mul(frac, scale), FracWords)
  IN ShrWords(product, FracWords)

SqlNumericI80F48_to_sql(bits, checks) ==
  IF bits = <<>>
  THEN Result("Ok", Header(1, 0, 0, 0) \o put_i16(0), 0)
  ELSE IF bits = I128MinBits
  \* abs() overflows: it panics where overflow is checked, and elsewhere wraps
  \* to MIN, on which int_log10 panics (the value is not positive)
  THEN Result("Panic", <<>>, IF checks THEN 0 ELSE 1)
  ELSE
    LET abs_val == IF IsNegative(bits) THEN Negate128(bits) ELSE bits
        decimals == FixedIntLog10(abs_val)
        first_group_weight == FirstGroupWeight(decimals)
        num_groups == first_group_weight - LastGroupWeight + 1
        head == Header(num_groups, first_group_weight,
                       IF IsNegative(bits) THEN SignNegative ELSE 0,
                       DScaleI80F48)
        int_part == ShrWords(abs_val, FracWords)
        frac_part == FracPart(abs_val)
        ints == EmitGroups(int_part, first_group_weight, 0, 0, U128Words,
                           checks, head)
        fracs == EmitGroups(frac_part, FracLoopStart(first_group_weight),
                            LastGroupWeight, -LastGroupWeight, U64Words, checks,
                            ints.bytes)
    IN IF num_groups < 0 /\ checks THEN Result("Panic", <<>>, 1)
       ELSE IF ~ints.ok THEN Result("Panic", ints.bytes, 1)
       ELSE Result(IF fracs.ok THEN "Ok" ELSE "Panic", fracs.bytes, 1)

(***************************************************************************)
(* The record a to_sql call wrote, read back from its bytes.               *)
(***************************************************************************)
U16At(bytes, i) == bytes[i] * 256 + bytes[i + 1]
I16At(bytes, i) ==
  IF U16At(bytes, i) >= 32768 THEN U16At(bytes, i) - 65536 ELSE U16At(bytes, i)

WireRecord(bytes) ==
  [num_groups |-> U16At(bytes, 1),
   weight |-> I16At(bytes, 3),
   sign |-> U16At(bytes, 5),
   dscale |-> U16At(bytes, 7),
   groups |-> [k \in 1..((Len(bytes) - 8) \div 2) |-> I16At(bytes, 7 + 2 * k)]]

(***************************************************************************)
(* The head of insert_account_write of MangoAccountTable (lines 250-259),  *)
(* MangoGroupTable (416-421) and MangoCacheTable (570-575).  The account   *)
(* data is given by its length and its first byte (-1 when it is empty).   *)
(* The structure sizes and discriminators come from the mango crate; the   *)
(* handlers only compare against them.                                     *)
(***************************************************************************)
Tables == {"MangoAccount", "MangoGroup", "MangoCache"}

\* mem::size_of::<MangoAccount>(), ::<MangoGroup>(), ::<MangoCache>()
SizeOf(t) == CASE t = "MangoAccount" -> 4296
               [] t = "MangoGroup" -> 6032
               [] t = "MangoCache" -> 1608

\* DataType::MangoAccount as u8, DataType::MangoGroup, DataType::MangoCache
Discriminator(t) == CASE t = "MangoAccount" -> 1
                      [] t = "MangoGroup" -> 0
                      [] t = "MangoCache" -> 7

\* the two tests in the other order: data[0] is read first
FilterIndexFirst(t, len, first) ==
  IF len = 0 THEN [indexed |-> TRUE, outcome |-> "panic"]
  ELSE IF first # Discriminator(t) THEN [indexed |-> TRUE, outcome |-> "skip"]
  ELSE IF len # SizeOf(t) THEN [indexed |-> TRUE, outcome |-> "skip"]
  ELSE [indexed |-> TRUE, outcome |-> "pass"]

\* if data.len() != size_of::<T>() || data[0] != DataType::T as u8 { return Ok(()) }
\* `||` evaluates data[0] only when the length matches; indexing empty data
\* panics.  The result says whether data[0] was read, and the outcome.
Filter(t, len, first) ==
  IF len # SizeOf(t) THEN [indexed |-> FALSE, outcome |-> "skip"]
  ELSE IF len = 0 THEN [indexed |-> TRUE, outcome |-> "panic"]
  ELSE IF first # Discriminator(t) THEN [indexed |-> TRUE, outcome |-> "skip"]
  ELSE [indexed |-> TRUE, outcome |-> "pass"]

(***************************************************************************)
(* Inputs.  Spread is the distance around each power of ten, and around    *)
(* each extreme of a type, up to which values are taken; MaxPrefix is the  *)
(* number of bytes already in the caller's buffer.                         *)
(***************************************************************************)
Spread == 1
MaxPrefix == 1

Near(c) == {Add(c, FromNat(d)) : d \in 0..Spread}
             \cup {Sub(c, FromNat(d)) : d \in {e \in 1..Spread : Geq(c, FromNat(e))}}
Below(c) == {Sub(c, FromNat(d)) : d \in 0..Spread}

\* the values within Spread of a power of ten below 2^128, and of a power of
\* 2^16
PowersOfTen == UNION {Near(Pow10(k)) : k \in 0..38}
PowersOfTwo == UNION {Near(Pow2Words(j)) : j \in 1..7}

U64Inputs ==
  {n \in PowersOfTen \cup PowersOfTwo \cup {<<>>, FromNat(12345)} :
     Fits(n, U64Words)} \cup Below(U64Max)

U128Inputs == PowersOfTen \cup PowersOfTwo \cup U64Inputs \cup Below(U128Max)

\* magnitudes of i128 values, and the bit patterns of the values
I128Magnitudes ==
  {n \in U128Inputs : n # <<>> /\ Geq(I128MaxBits, n)} \cup Below(I128MaxBits)
I128Inputs ==
  I128Magnitudes \cup {Negate128(m) : m \in I128Magnitudes}
    \cup {<<>>, I128MinBits}

\* magnitudes of I80F48 values, as bits: whole numbers around the powers of
\* ten, their neighbours one unit in the last place away, the fractions
\* around 10^-k, a half, one and a half, 12345.6789 (rounded down), and the
\* largest values
I80F48Magnitudes ==
  {m \in {ShlWords(n, FracWords) : n \in PowersOfTen}
           \cup UNION {Near(ShlWords(Pow10(k), FracWords)) : k \in 0..23}
           \cup UNION {Near(Div(Pow2Words(FracWords), Pow10(k))) : k \in 1..15}
           \cup PowersOfTwo
           \cup {<<0, 0, 32768>>, <<0, 0, 32768, 1>>,
                 Div(ShlWords(FromNat(123456789), FracWords), Pow10(4))} :
     m # <<>> /\ Geq(I128MaxBits, m)} \cup Below(I128MaxBits)
I80F48Inputs ==
  I80F48Magnitudes \cup {Negate128(m) : m \in I80F48Magnitudes}
    \cup {<<>>, I128MinBits}

Prefixes == {[i \in 1..n |-> 170 + i] : n \in 0..MaxPrefix}

Lengths == {0, 1} \cup UNION {{SizeOf(t) - 1, SizeOf(t), SizeOf(t) + 1} : t \in Tables}
FirstBytes == {Discriminator(t) : t \in Tables} \cup {2, 255}

(***************************************************************************)
(* The state machine: out is the caller's buffer and before its contents   *)
(* when the last call started; call is the last call of an encoder or of   *)
(* int_log, write the last account write handled.                          *)
(***************************************************************************)
NoCall == [op |-> "none", arg |-> <<>>, status |-> "none", logs |-> 0, ret |-> 0]
NoWrite == [table |-> "none", len |-> 0, first |-> -1, indexed |-> FALSE,
            decoded |-> FALSE, encoded |-> FALSE, inserted |-> FALSE,
            result |-> "none"]

Idle == call = NoCall /\ write = NoWrite

Init ==
  /\ out \in Prefixes
  /\ before = out
  /\ call = NoCall
  /\ write = NoWrite

\* the call with a buffer that is cleared before the record is written
EncodeOverwriting(op, arg, res) ==
  /\ before' = out
  /\ out' = res.bytes
  /\ call' = [op |-> op, arg |-> arg, status |-> res.status, logs |-> res.logs,
              ret |-> 0]
  /\ UNCHANGED write

\* a to_sql call: out.reserve and out.put_u16 / put_i16 add to the end of the
\* buffer and leave what is in it
Encode(op, arg, res) ==
  /\ before' = out
  /\ out' = out \o res.bytes
  /\ call' = [op |-> op, arg |-> arg, status |-> res.status, logs |-> res.logs,
              ret |-> 0]
  /\ UNCHANGED write

ToSqlI80F48 ==
  /\ Idle
  /\ \E bits \in I80F48Inputs, checks \in BOOLEAN :
       Encode("I80F48", bits, SqlNumericI80F48_to_sql(bits, checks))

ToSqlI128 ==
  /\ Idle
  /\ \E bits \in I128Inputs, checks \in BOOLEAN :
       Encode("I128", bits, SqlNumericI128_to_sql(bits, checks))

ToSqlU64 ==
  /\ Idle
  /\ \E v \in U64Inputs, checks \in BOOLEAN :
       Encode("U64", v, SqlNumericU64_to_sql(v, checks))

IntLogU64 ==
  /\ Idle
  /\ \E n \in U64Inputs \ {<<>>} :
       call' = [op |-> "log_u64", arg |-> n, status |-> "Ok", logs |-> 1,
                ret |-> int_log_u64(n)]
  /\ UNCHANGED <<out, before, write>>

IntLogU128 ==
  /\ Idle
  /\ \E n \in U128Inputs \ {<<>>} :
       call' = [op |-> "log_u128", arg |-> n, status |-> "Ok", logs |-> 1,
                ret |-> int_log_u128(n)]
  /\ UNCHANGED <<out, before, write>>

\* insert_account_write: after the filter the account is decoded
\* (load_from_bytes, which can fail), its numeric fields are wrapped and
\* encoded as the statement's parameters, and the insert is executed (which
\* can fail).
InsertAccountWrite ==
  /\ Idle
  /\ \E t \in Tables, len \in Lengths, first \in FirstBytes \cup {-1},
        loaded \in BOOLEAN, executed \in BOOLEAN :
       /\ (len = 0) = (first = -1)
       /\ LET f == Filter(t, len, first)
              pass == f.outcome = "pass"
          IN write' = [table |-> t, len |-> len, first |-> first,
                       indexed |-> f.indexed,
                       decoded |-> pass,
                       encoded |-> pass /\ loaded,
                       inserted |-> pass /\ loaded /\ executed,
                       result |-> IF f.outcome = "panic" THEN "Panic"
                                  ELSE IF f.outcome = "skip" THEN "Ok"
                                  ELSE IF loaded /\ executed THEN "Ok"
                                  ELSE "Err"]
  /\ UNCHANGED <<out, before, call>>

\* the caller takes the result and comes back with a buffer for the next call
Return ==
  /\ ~Idle
  /\ out' \in Prefixes
  /\ before' = out'
  /\ call' = NoCall
  /\ write' = NoWrite

Next ==
  \/ ToSqlI80F48
  \/ ToSqlI128
  \/ ToSqlU64
  \/ IntLogU64
  \/ IntLogU128
  \/ InsertAccountWrite
  \/ Return

Spec == Init /\ [][Next]_vars

(***************************************************************************)
(* What the properties below speak about.                                  *)
(***************************************************************************)
Encoders == {"I80F48", "I128", "U64"}

\* the bytes the last call appended, and the record they hold
Appended == SubSeq(out, Len(before) + 1, Len(out))
Rec == WireRecord(Appended)
Encoded(op) == call.op = op /\ call.status = "Ok" /\ Len(Appended) >= 8

\* a signed 128-bit pattern is negative when its top bit is set; its opposite
\* and its magnitude
Negative(bits) == Len(bits) = 8 /\ bits[8] >= 32768
Opposite(bits) == IF bits = <<>> THEN bits ELSE Sub(Pow2Words(8), bits)
Magnitude(bits) == IF Negative(bits) THEN Opposite(bits) ELSE bits

\* sum of groups[i] * 10000^(n - i) over the n groups, by Horner's rule; the
\* empty sequence for no groups
RECURSIVE Horner(_, _, _)
Horner(groups, i, acc) ==
  IF i > Len(groups) \/ Len(acc) > 16 THEN acc
  ELSE Horner(groups, i + 1, Add(MulSmall(acc, 10000), FromNat(groups[i])))

\* sum of groups[i] * 10000^(weight - (i - 1) + shift), i = 1..n: the value of
\* the record times 10000^shift, when that is a whole number
Rebuilt(rec, shift) ==
  Mul(Horner(rec.groups, 1, <<>>),
      PowSmall(10000, rec.weight - (Len(rec.groups) - 1) + shift))

GroupsInRange(rec) == \A k \in 1..Len(rec.groups) : rec.groups[k] \in 0..9999

\* |bits| / 2^48 truncated to 16 fractional decimal digits, times 10^16
Truncated16(bits) == ShrWords(Mul(Magnitude(bits), Pow10(16)), FracWords)

\* C1: int_log::u64(n) and int_log::u128(n) return floor(log10(n)), the number
\* of decimal digits of n minus one, for every n > 0 tried: 10^k - 1, 10^k and
\* 10^k + 1 for every k in range, and the largest values of each width.
IntLogIsFloorLog10 ==
  call.op \in {"log_u64", "log_u128"} => call.ret = FloorLog10(call.arg)

IntLogWitness ==
  call.op = "log_u128" /\ call.arg = U128Max /\ call.ret = 38

\* C2: every digit group an encoder writes is in 0..9999.
DigitGroupsInRange ==
  call.op \in Encoders /\ Len(Appended) >= 8 => GroupsInRange(Rec)

DigitGroupsWitness ==
  /\ Encoded("I80F48")
  /\ Rec.groups = <<9999, 9999, 9999, 9999, 9999, 0, 0, 0, 0>>

\* C3: the value rebuilt from the written record, sign * sum of
\* groups[i] * 10000^(weight - i), is the input for SqlNumericI128 and
\* SqlNumericU64, and the input truncated to 16 fractional decimal digits for
\* SqlNumericI80F48.
RoundTrip ==
  /\ Encoded("U64") =>
       /\ GroupsInRange(Rec)
       /\ Rec.weight >= Len(Rec.groups) - 1
       /\ Rebuilt(Rec, 0) = call.arg
       /\ Rec.sign = 0
  /\ Encoded("I128") =>
       /\ GroupsInRange(Rec)
       /\ Rec.weight >= Len(Rec.groups) - 1
       /\ Rebuilt(Rec, 0) = Magnitude(call.arg)
       /\ call.arg # <<>> => (Rec.sign = 16384) = Negative(call.arg)
  /\ Encoded("I80F48") =>
       /\ GroupsInRange(Rec)
       /\ Rec.weight + 4 >= Len(Rec.groups) - 1
       /\ Rebuilt(Rec, 4) = Truncated16(call.arg)
       /\ call.arg # <<>> => (Rec.sign = 16384) = Negative(call.arg)

RoundTripWitness ==
  /\ Encoded("I80F48")
  /\ call.arg = Opposite(<<0, 0, 32768, 1>>)
  /\ Rec.groups = <<1, 5000, 0, 0, 0>>

\* C4: encoding the fixed-point value 0 writes
\* {num_groups=1, weight=0, sign=0, dscale=16, groups=[0]}.
ZeroI80F48HasDScale16 ==
  Encoded("I80F48") /\ call.arg = <<>> =>
    Rec = [num_groups |-> 1, weight |-> 0, sign |-> 0, dscale |-> 16,
           groups |-> <<0>>]

\* C5: encoding the integer 0 with SqlNumericI128 or SqlNumericU64 calls no
\* logarithm and writes exactly {num_groups=1, weight=0, sign=0, dscale=0,
\* groups=[0]}.
IntegerZeroRecord ==
  call.op \in {"I128", "U64"} /\ call.arg = <<>> =>
    /\ call.status = "Ok"
    /\ call.logs = 0
    /\ Len(Appended) = 10
    /\ Rec = [num_groups |-> 1, weight |-> 0, sign |-> 0, dscale |-> 0,
              groups |-> <<0>>]

IntegerZeroWitness ==
  Encoded("U64") /\ call.arg = <<>> /\ Len(before) = 1 /\ Len(out) = 11

\* the number of groups of rec at negative weights
FractionalGroups(rec) == Len(rec.groups) - Max(rec.weight + 1, 0)

\* |bits| / 2^48 >= 10^-k, for a nonzero I80F48 pattern
AtLeastPow10Minus(bits, k) ==
  Geq(Mul(Magnitude(bits), Pow10(k)), Pow2Words(FracWords))

NonzeroI80F48 == Encoded("I80F48") /\ call.arg # <<>>

\* C6, as stated: every nonzero fixed-point input is written with dscale=16
\* and exactly four fractional groups, so num_groups = first_group_weight + 5
\* with first_group_weight >= 0.
AlwaysFourFractionalGroups ==
  NonzeroI80F48 =>
    /\ Rec.dscale = 16
    /\ FractionalGroups(Rec) = 4
    /\ Rec.num_groups = Rec.weight + 5
    /\ Rec.weight >= 0

\* C6, amended: every nonzero fixed-point input is written with dscale=16 and
\* num_groups = first_group_weight + 5 groups, the last of weight -4, with
\* -4 <= first_group_weight; the fractional groups are those of weights
\* min(first_group_weight, -1) down to -4: four of them exactly when the value
\* is at least 10^-4, fewer below that, where the leading zero groups are not
\* written.
FractionalGroupsFromFirstWeight ==
  NonzeroI80F48 =>
    /\ Rec.dscale = 16
    /\ Rec.num_groups = Rec.weight + 5
    /\ Len(Rec.groups) = Rec.num_groups
    /\ Rec.weight >= -4
    /\ FractionalGroups(Rec) = Min(Rec.weight, -1) + 5
    /\ (FractionalGroups(Rec) = 4) = AtLeastPow10Minus(call.arg, 4)

FewerFractionalGroupsWitness ==
  /\ NonzeroI80F48
  /\ ~AtLeastPow10Minus(call.arg, 4)
  /\ Rec.weight = -2
  /\ Len(Rec.groups) = 3

\* C7, as stated: for 0 < |v| < 1 the weight field is 0 and the first group
\* written is the integer group 0; for |v| >= 1 digit_count is
\* floor(log10(integer part)) and the weight field is floor(digit_count / 4).
FractionHasWeightZero ==
  NonzeroI80F48 =>
    IF AtLeastPow10Minus(call.arg, 0)
    THEN Rec.weight = FloorLog10(ShrWords(Magnitude(call.arg), FracWords)) \div 4
    ELSE Rec.weight = 0 /\ Rec.groups[1] = 0

\* C7, amended: for 0 < |v| < 1 digit_count is floor(log10(|v|)), which is
\* negative: 10^-k <= |v| < 10^-(k-1) gives digit_count = -k, the weight field
\* is floor(-k / 4), in -4..-1, and no integer group is written, the first
\* group being the fractional group of that weight; for |v| >= 1 digit_count
\* is floor(log10(integer part)) and the weight field is floor(digit_count / 4).
WeightFromDigitCount ==
  NonzeroI80F48 =>
    IF AtLeastPow10Minus(call.arg, 0)
    THEN Rec.weight = FloorLog10(ShrWords(Magnitude(call.arg), FracWords)) \div 4
    ELSE /\ \E k \in 1..15 :
              /\ AtLeastPow10Minus(call.arg, k)
              /\ ~AtLeastPow10Minus(call.arg, k - 1)
              /\ Rec.weight = -((k + 3) \div 4)
         /\ Rec.weight \in -4..-1
         /\ Len(Rec.groups) = Rec.weight + 5

FractionWeightWitness ==
  /\ NonzeroI80F48
  /\ call.arg = <<0, 0, 32768>>
  /\ Rec.weight = -1
  /\ Rec.groups = <<5000, 0, 0, 0>>

\* C8: every call of an encoder completes with Ok(IsNull::No), for every value
\* of its source type, i128::MIN and I80F48::MIN included.
EncodingIsTotal ==
  call.op \in Encoders => call.status = "Ok"

\* the bytes of the record but for the sign field
Unsigned(bytes) == SubSeq(bytes, 1, 4) \o SubSeq(bytes, 7, Len(bytes))

\* C9: the sign field is 0x4000 if and only if the input is strictly negative,
\* and 0x0000 otherwise (always for SqlNumericU64 and for zero); v and -v are
\* written with the same num_groups, weight, dscale and groups.
SignField ==
  /\ Encoded("U64") => Rec.sign = 0
  /\ Encoded("I128") =>
       /\ Rec.sign = (IF Negative(call.arg) THEN 16384 ELSE 0)
       /\ call.arg # I128MinBits =>
            Unsigned(SqlNumericI128_to_sql(Opposite(call.arg), TRUE).bytes)
              = Unsigned(Appended)
  /\ Encoded("I80F48") =>
       /\ Rec.sign = (IF Negative(call.arg) THEN 16384 ELSE 0)
       /\ call.arg # I128MinBits =>
            Unsigned(SqlNumericI80F48_to_sql(Opposite(call.arg), TRUE).bytes)
              = Unsigned(Appended)

SignFieldWitness ==
  /\ Encoded("I128")
  /\ call.arg = Opposite(FromNat(12345))
  /\ Rec.sign = 16384
  /\ Rec.groups = <<1, 2345>>

Skipped ==
  /\ write.table \in Tables
  /\ write.len # SizeOf(write.table) \/ write.first # Discriminator(write.table)

\* C10: insert_account_write on data of another length than the structure's, or
\* with another first byte than the discriminator, returns Ok(()) without
\* decoding, encoding or inserting anything; the length is tested before
\* data[0] is read, so data of a wrong length, empty data included, is never
\* indexed.
WrongAccountIsSkipped ==
  /\ Skipped =>
       /\ write.result = "Ok"
       /\ ~write.decoded /\ ~write.encoded /\ ~write.inserted
       /\ call = NoCall /\ out = before
  /\ write.table \in Tables /\ write.len # SizeOf(write.table) => ~write.indexed

EmptyDataWitness ==
  /\ write.table = "MangoCache"
  /\ write.len = 0
  /\ write.result = "Ok"
  /\ ~write.indexed

\* 10000^w <= mag / 2^(16 * fracWords) < 10000^(w + 1): w is the order of
\* magnitude in base 10000 of the value mag / 2^(16 * fracWords)
OrderOfMagnitude(mag, fracWords, w) ==
  /\ Geq(Mul(mag, PowSmall(10000, Max(-w, 0))),
         ShlWords(PowSmall(10000, Max(w, 0)), fracWords))
  /\ Lt(Mul(mag, PowSmall(10000, Max(-w - 1, 0))),
        ShlWords(PowSmall(10000, Max(w + 1, 0)), fracWords))

\* C11: for every nonzero input of each encoder the weight field is the order
\* of magnitude of the value in base 10000 and the first group written is in
\* 1..9999; and the weight computed through f64 from a digit count d is the
\* integer w with 4 * w <= d < 4 * w + 4, for every digit count that occurs:
\* -15 (one unit in the last place of I80F48) up to 38 (the largest u128).
WeightIsOrderOfMagnitude ==
  /\ \A op \in Encoders :
       Encoded(op) /\ call.arg # <<>> =>
         /\ Rec.groups # <<>>
         /\ Rec.groups[1] \in 1..9999
         /\ OrderOfMagnitude(IF op = "U64" THEN call.arg
                             ELSE Magnitude(call.arg),
                             IF op = "I80F48" THEN 3 ELSE 0, Rec.weight)
  /\ \A d \in -15..38 :
       LET w == FirstGroupWeight(d) IN 4 * w <= d /\ d < 4 * w + 4

SmallestFractionWitness ==
  /\ Encoded("I80F48")
  /\ call.arg = <<1>>
  /\ Rec.weight = -4
  /\ Rec.groups = <<35>>

\* C12: a to_sql call only appends to the caller's buffer: the bytes that were
\* in it are unchanged; when the call completes, 8 + 2 * num_groups bytes have
\* been appended, and num_groups is the number of groups after the header.
OnlyAppends ==
  call.op \in Encoders =>
    /\ Len(out) >= Len(before)
    /\ SubSeq(out, 1, Len(before)) = before
    /\ call.status = "Ok" =>
         /\ Len(Appended) >= 10
         /\ Len(Appended) = 8 + 2 * Rec.num_groups
         /\ Len(Rec.groups) = Rec.num_groups

OnlyAppendsWitness ==
  /\ Encoded("I128")
  /\ Len(before) = 1
  /\ Rec.num_groups = 10
  /\ Len(out) = 29

====
